---- MODULE Spec2Model ----
(***************************************************************************)
(* The two MNIST experiment drivers of the repository,                     *)
(*   scripts/mnist/diehl_and_cook_2015.py          (script "dc")           *)
(*   experiments/mnist/logreg_locally_connected.py (script "lr")           *)
(* as one state machine: a run is launched with a configuration, checks    *)
(* its divisibility assertion, builds or loads its network and classifier, *)
(* walks the example loop (periodic evaluation, simulation, retry, spike   *)
(* aggregation), flushes a last evaluation and reports.  The files the     *)
(* runs leave behind (network checkpoint, classifier auxiliary state,      *)
(* accuracy curves, confusion matrices, CSV results) are state too.        *)
(*                                                                         *)
(* The simulator, the encoders and the classifiers are external: a         *)
(* simulation yields a nondeterministic output spike sum, an evaluation a  *)
(* nondeterministic accuracy.  Spike records hold the index of the example *)
(* whose spikes they store; labels are identified by their position in     *)
(* the label array.                                                        *)
(***************************************************************************)
EXTENDS Integers, Sequences, FiniteSets, TLC

\* Bounds of the model.
MaxExamples == 4
MaxInterval == 2
MaxLabels == 4
MaxRuns == 3
MaxCrop == 13

\* Program constants.
MinSpikes == 5
MaxRetries == 3
NoExample == -1
ImageSide == 28
DefaultCrop == 4
NoImage == -1

VARIABLES
    cfg,                \* the configuration of the run in progress
    pc,                 \* position of the run in the script
    error,              \* the exception that ended the run, "none" otherwise
    i,                  \* loop variable: index of the next example
    retries,            \* retries made for the current example (lr)
    scale,              \* factor by which the current image has been multiplied (lr)
    nspikes,            \* output spike sum of the latest simulation
    spike_record,       \* rolling buffer, update_interval slots
    full_spike_record,  \* one spike-sum record per example (lr)
    curves,             \* scheme -> sequence of accuracies
    best_accuracy,      \* best-accuracy watermark (training)
    network,            \* in-memory network: weights version, learning enabled
    classifier,         \* in-memory classifier state version
    evaluated,          \* the evaluations made: index, labels and records compared
    image,              \* pixels of the image last handed to the encoder
    net_file,           \* persisted network checkpoints: the network as saved
    aux_file,           \* persisted classifier auxiliary state
    curve_file,         \* persisted accuracy curves (lr)
    confusion_file,     \* persisted confusion matrices (lr)
    csv_file,           \* results files: <<script, name>> -> sequence of lines
    written_by,         \* checkpoint and classifier files -> identity of the run that wrote them last
    runs                \* runs that have exited

vars == <<cfg, pc, error, i, retries, scale, nspikes, spike_record, full_spike_record,
          curves, best_accuracy, network, classifier, evaluated, image,
          net_file, aux_file, curve_file, confusion_file, csv_file, written_by, runs>>

memory == <<i, retries, scale, nspikes, spike_record, full_spike_record,
            curves, best_accuracy, network, classifier, evaluated, image>>
disk == <<net_file, aux_file, curve_file, confusion_file, csv_file, written_by>>

-----------------------------------------------------------------------------
\* Python helpers.

Min2(a, b) == IF a < b THEN a ELSE b
Max2(a, b) == IF a > b THEN a ELSE b

RECURSIVE MaxOf(_)
MaxOf(S) == IF Cardinality(S) = 1 THEN CHOOSE x \in S : TRUE
            ELSE LET x == CHOOSE y \in S : TRUE IN Max2(x, MaxOf(S \ {x}))

RECURSIVE MinOf(_)
MinOf(S) == IF Cardinality(S) = 1 THEN CHOOSE x \in S : TRUE
            ELSE LET x == CHOOSE y \in S : TRUE IN Min2(x, MinOf(S \ {x}))

\* A slice bound as Python normalises it for a sequence of length n.
SliceBound(x, n) == IF x < 0 THEN Max2(x + n, 0) ELSE Min2(x, n)

\* s[lo:hi] of a Python sequence (0-based), s held as a 1-based sequence.
PySlice(s, lo, hi) ==
    LET a == SliceBound(lo, Len(s))
        b == SliceBound(hi, Len(s))
    IN  IF a >= b THEN <<>> ELSE SubSeq(s, a + 1, b)

\* s[-k:] for k > 0.
PyTail(s, k) == PySlice(s, 0 - k, Len(s))

\* sep.join(strs)
RECURSIVE Join(_, _)
Join(strs, sep) ==
    IF Len(strs) = 0 THEN ""
    ELSE IF Len(strs) = 1 THEN strs[1]
    ELSE strs[1] \o sep \o Join(Tail(strs), sep)

\* What a reader of a comma-separated line sees of one written string.
CommaSplit(s) ==
    CASE s = "[16, 16]" -> <<"[16", " 16]">>
      [] s = "(16,)"    -> <<"(16", ")">>
      [] OTHER          -> <<s>>

\* The fields of the line ','.join(strs).
RECURSIVE CsvFields(_)
CsvFields(strs) ==
    IF Len(strs) = 0 THEN <<>> ELSE CommaSplit(strs[1]) \o CsvFields(Tail(strs))

-----------------------------------------------------------------------------
\* Configurations.

Scripts == {"dc", "lr"}

\* str() of the kernel_size values that reach main(): an int or a two-element
\* list from the command line, the one-element tuple of main's default.
KernelSizes == {"16", "[16, 16]", "(16,)"}

Configs ==
    { c \in [script : Scripts, train : BOOLEAN, n_train : 0..MaxExamples,
             n_test : 0..MaxExamples, update_interval : 1..MaxInterval,
             nlabels : 1..MaxLabels, kernel_size : KernelSizes \cup {"-"},
             crop : 0..MaxCrop] :
        /\ (c.script = "dc") <=> (c.kernel_size = "-")
        /\ (c.script = "dc") => (c.crop = 0) }

\* The crop of the command line's default (diehl_and_cook_2015.py has none).
CropDefault(c) == c.script = "lr" => c.crop = DefaultCrop

\* The configurations of the one-run specification: kernel_size, which enters
\* only the file names and the results row, and crop are the command line's
\* defaults.
RunConfigs == { c \in Configs : c.kernel_size \in {"-", "16"} /\ CropDefault(c) }

\* The configurations of the multi-run specification: short runs, every form
\* of kernel_size.
SmallConfigs ==
    { c \in Configs : /\ c.update_interval = 1
                      /\ c.n_train = 2
                      /\ c.n_test \in 1..2
                      /\ c.nlabels = MaxLabels
                      /\ CropDefault(c) }

\* The configurations of the cropping specification: short training runs of
\* logreg_locally_connected.py at every crop.
CropConfigs ==
    { c \in Configs : /\ c.script = "lr"
                      /\ c.train
                      /\ c.update_interval = 1
                      /\ c.n_train = 2
                      /\ c.n_test = 2
                      /\ c.nlabels = MaxLabels
                      /\ c.kernel_size = "16" }

NoConfig == [script |-> "-", train |-> TRUE, n_train |-> 0, n_test |-> 0,
             update_interval |-> 1, nlabels |-> 1, kernel_size |-> "-", crop |-> 0]

AssertOkOneCount(c) ==
    (IF c.train THEN c.n_train ELSE c.n_test) % c.update_interval = 0

AssertOk(c) ==
    /\ c.n_train % c.update_interval = 0
    /\ c.n_test % c.update_interval = 0

NExamples(c) == IF c.train THEN c.n_train ELSE c.n_test

Params(c) ==
    IF c.script = "dc"
    THEN <<"0", "100", ToString(c.n_train), ToString(c.n_test), "22.5", "50.0",
           "350", "1.0", "0.5", "10", ToString(c.update_interval)>>
    ELSE <<"0", c.kernel_size, "2", "25", ToString(c.crop), "0.01", "1", ToString(c.n_train),
           "250", "25", "1.0", "0.05", "1e-07", "0.5", "0.2", "10",
           ToString(c.update_interval)>>

TestParams(c) ==
    <<"0", c.kernel_size, "2", "25", ToString(c.crop), "0.01", "1", ToString(c.n_train),
      ToString(c.n_test), "250", "25", "1.0", "0.05", "1e-07", "0.5", "0.2", "10",
      ToString(c.update_interval)>>

ModelName(c) == Join(Params(c), "_")

NetPath(c) == IF c.script = "dc" THEN ModelName(c) ELSE ModelName(c) \o ".pt"

AuxPath(c) ==
    IF c.script = "dc" THEN "auxiliary.p"
    ELSE Join(<<"auxiliary", ModelName(c)>>, "_") \o ".pt"

ModePrefix(c) == IF c.train THEN "train" ELSE "test"

\* The curves file of the in-loop save and of the save after the loop.
CurvePath(c) == Join(<<ModePrefix(c)>> \o Params(c), "_") \o ".pt"

ConfusionPath(c) ==
    Join(<<ModePrefix(c)>> \o (IF c.train THEN Params(c) ELSE TestParams(c)), "_") \o ".pt"

CsvName(c) == IF c.train THEN "train.csv" ELSE "test.csv"

\* side_length = 28 - crop * 2; n_inpt = side_length ** 2 (784 in
\* diehl_and_cook_2015.py)
SideLength(c) == IF c.script = "dc" THEN ImageSide ELSE ImageSide - c.crop * 2
NInpt(c) == SideLength(c) * SideLength(c)

\* s[k:-k]
Cropped(s, k) == PySlice(s, k, 0 - k)

\* The pixels of one image of images[:, crop:-crop, crop:-crop], flattened
\* (of images.view(-1, 784) in diehl_and_cook_2015.py).
ImagePixels(c) ==
    LET line == [k \in 1..ImageSide |-> k]
    IN  IF c.script = "dc" THEN ImageSide * ImageSide
        ELSE Len(Cropped(line, c.crop)) * Len(Cropped(line, c.crop))

CsvHeader(c) ==
    IF c.script = "dc"
    THEN <<"random seed", "no. neurons", "no. train", "no. test", "excitation",
           "inhibition", "sim. time", "timestep", "intensity", "progress int.",
           "update int.", "all activity", "proportion weighting">>
    ELSE IF c.train
    THEN <<"random_seed", "kernel_size", "stride", "n_filters", "crop", "lr",
           "lr_decay", "n_train", "inhib", "time", "timestep", "theta_plus",
           "theta_decay", "intensity", "norm", "progress_interval",
           "update_interval", "mean_logreg", "std_logreg">>
    ELSE <<"random_seed", "kernel_size", "stride", "n_filters", "crop", "lr",
           "lr_decay", "n_train", "n_test", "inhib", "time", "timestep",
           "theta_plus", "theta_decay", "intensity", "norm", "progress_interval",
           "update_interval", "mean_logreg", "std_logreg">>

\* to_write of the results row; the two result summaries are numbers.
CsvRow(c) ==
    IF c.script = "dc" THEN Params(c) \o <<"acc_all", "acc_proportion">>
    ELSE (IF c.train THEN Params(c) ELSE TestParams(c)) \o <<"mean", "std">>

Schemes(c) == IF c.script = "dc" THEN {"all", "proportion"} ELSE {"logreg"}

\* The label array: the label at Python index k is identified by k.
Labels(c) == [k \in 1..c.nlabels |-> k - 1]

\* 100 * (number of correct predictions) / update_interval
AccValues(c) == { (100 * k) \div c.update_interval : k \in 0..c.update_interval }

-----------------------------------------------------------------------------
\* Files: sets of <<directory (script), path, content>>, one entry per path.

Exists(files, s, p) == \E f \in files : f[1] = s /\ f[2] = p
Content(files, s, p) == (CHOOSE f \in files : f[1] = s /\ f[2] = p)[3]
Save(files, s, p, data) ==
    { f \in files : ~(f[1] = s /\ f[2] = p) } \cup { <<s, p, data>> }


\* A disk on which no run has written, and the disk earlier training runs leave:
\* a checkpoint under every identity whose training reaches a checkpointing
\* evaluation, the classifier state beside it, and a results file.
Trainable(c) ==
    /\ c.train
    /\ AssertOk(c)
    /\ c.nlabels = MaxLabels
    /\ c.n_train >= (IF c.script = "dc" THEN 2 * c.update_interval ELSE c.update_interval)
    /\ c.n_train >= 1
    /\ CropDefault(c)

TrainedNet ==
    { <<c.script, NetPath(c), [weights |-> c.update_interval, learning |-> TRUE]>> :
        c \in { d \in Configs : Trainable(d) } }
TrainedAux == { <<c.script, AuxPath(c), 0>> : c \in { d \in Configs : Trainable(d) } }
\* Each checkpoint was written by the run of its identity; the one classifier
\* file of diehl_and_cook_2015.py by whichever of its runs came last.
LastTrained(c) ==
    IF c.script = "dc" THEN CHOOSE d \in Configs : Trainable(d) /\ d.script = "dc" ELSE c
TrainedBy ==
    { <<c.script, NetPath(c), ModelName(c)>> : c \in { d \in Configs : Trainable(d) } }
    \cup { <<c.script, AuxPath(c), ModelName(LastTrained(c))>> :
             c \in { d \in Configs : Trainable(d) } }
TrainedCsv ==
    { <<c.script, CsvName(c), <<CsvHeader(c), CsvFields(CsvRow(c))>>>> :
        c \in { d \in Configs : /\ Trainable(d)
                                /\ d.n_train = MaxExamples /\ d.n_test = MaxExamples
                                /\ d.update_interval = 1 /\ d.kernel_size \in {"-", "16"} } }

-----------------------------------------------------------------------------
\* The decisions of the loop.

EvalDueAtZero(idx, u) == idx % u = 0

\* if i % update_interval == 0 and i > 0
EvalDue(idx, u) == idx % u = 0 /\ idx > 0

SlotShifted(idx, u) == (idx + 1) % u

\* spike_record[i % update_interval] = ...
Slot(idx, u) == idx % u

LoadedNetworkLearning(saved) == saved

\* load_network(...), then the update rule of the plastic connection is removed.
LoadedNetwork(saved) == [saved EXCEPT !.learning = FALSE]

RetryDueOneMore(s, r) == s < MinSpikes /\ r <= MaxRetries

\* while spikes['Y'].get('s').sum() < 5 and retries < 3
RetryDue(s, r) == s < MinSpikes /\ r < MaxRetries

\* any([x[-1] > best_accuracy for x in curves.values()])
Exceeds(latest, best) == \E s \in DOMAIN latest : latest[s] > best

NewBestMin(latest) == MinOf({ latest[s] : s \in DOMAIN latest })

\* best_accuracy = max([x[-1] for x in curves.values()])
NewBest(latest) == MaxOf({ latest[s] : s \in DOMAIN latest })

CheckpointDueAnyMode(c, latest, best) == Exceeds(latest, best)

\* if train: if any(...)
CheckpointDue(c, latest, best) == c.train /\ Exceeds(latest, best)

\* update_curves of experiments/utils.py: one accuracy appended to every
\* scheme's curve.
UpdateCurves(cv, latest) == [s \in DOMAIN cv |-> Append(cv[s], latest[s])]

AppendedFirstOnly(cv, latest) ==
    LET first == CHOOSE s \in DOMAIN cv : TRUE
    IN  [s \in DOMAIN cv |-> IF s = first THEN Append(cv[s], latest[s]) ELSE cv[s]]

\* accuracy[scheme].append(...) for every scheme
Appended(cv, latest) == [s \in DOMAIN cv |-> Append(cv[s], latest[s])]

IntervalSliceNoTail(seq, idx, n, u) == PySlice(seq, (idx % n) - u, idx % n)

\* The interval's slice of labels or of full_spike_record, n = len(labels).
IntervalSlice(seq, idx, n, u) ==
    IF idx % n = 0 THEN PyTail(seq, u)
    ELSE PySlice(seq, (idx % n) - u, idx % n)

\* The results file after one more run: the header when the file is absent,
\* then the row.
CsvAppended(files, c) ==
    LET had == IF Exists(files, c.script, CsvName(c))
               THEN Content(files, c.script, CsvName(c))
               ELSE <<CsvHeader(c)>>
    IN  Save(files, c.script, CsvName(c), Append(had, CsvFields(CsvRow(c))))

-----------------------------------------------------------------------------
\* The state before a run and after a run has exited.

IdleMemory ==
    /\ i = 0
    /\ retries = 0
    /\ scale = 1
    /\ nspikes = 0
    /\ spike_record = <<>>
    /\ full_spike_record = <<>>
    /\ curves = <<>>
    /\ best_accuracy = 0
    /\ network = [weights |-> 0, learning |-> FALSE]
    /\ classifier = 0
    /\ evaluated = <<>>
    /\ image = NoImage

EmptyDisk ==
    /\ net_file = {}
    /\ aux_file = {}
    /\ curve_file = {}
    /\ confusion_file = {}
    /\ csv_file = {}
    /\ written_by = {}

TrainedDisk ==
    /\ net_file = TrainedNet
    /\ aux_file = TrainedAux
    /\ curve_file = {}
    /\ confusion_file = {}
    /\ csv_file = TrainedCsv
    /\ written_by = TrainedBy

Init ==
    /\ cfg = NoConfig
    /\ pc = "idle"
    /\ error = "none"
    /\ runs = 0
    /\ IdleMemory
    /\ (EmptyDisk \/ TrainedDisk)

InitRuns ==
    /\ cfg = NoConfig
    /\ pc = "idle"
    /\ error = "none"
    /\ runs = 0
    /\ IdleMemory
    /\ EmptyDisk

Fail(e) ==
    /\ pc' = "failed"
    /\ error' = e

-----------------------------------------------------------------------------
\* The steps of a run.

\* The script is started with configuration c.
Launch(c) ==
    /\ pc = "idle"
    /\ runs < MaxRuns
    /\ cfg' = c
    /\ pc' = "assert"
    /\ UNCHANGED <<error, memory, disk, runs>>

\* assert n_train % update_interval == 0 and n_test % update_interval == 0
Validate ==
    /\ pc = "assert"
    /\ IF AssertOk(cfg)
       THEN pc' = "setup" /\ error' = error
       ELSE Fail("AssertionError")
    /\ UNCHANGED <<cfg, memory, disk, runs>>

\* Build the network (training) or load it and the classifier state (test);
\* allocate the spike records and the curves.
Setup ==
    /\ pc = "setup"
    /\ IF cfg.train
       THEN /\ network' = [weights |-> 0, learning |-> TRUE]
            /\ classifier' = 0
            /\ pc' = "loop" /\ error' = error
       ELSE IF /\ Exists(net_file, cfg.script, NetPath(cfg))
               /\ Exists(aux_file, cfg.script, AuxPath(cfg))
            THEN /\ network' = LoadedNetwork(Content(net_file, cfg.script, NetPath(cfg)))
                 /\ classifier' = Content(aux_file, cfg.script, AuxPath(cfg))
                 /\ pc' = "loop" /\ error' = error
            ELSE /\ Fail("FileNotFoundError")
                 /\ UNCHANGED <<network, classifier>>
    /\ IF pc' = "loop"
       THEN /\ spike_record' = [k \in 1..cfg.update_interval |-> NoExample]
            /\ full_spike_record' =
                   IF cfg.script = "lr" THEN [k \in 1..NExamples(cfg) |-> NoExample]
                   ELSE <<>>
            /\ curves' = [s \in Schemes(cfg) |-> <<>>]
       ELSE UNCHANGED <<spike_record, full_spike_record, curves>>
    /\ best_accuracy' = 0
    /\ UNCHANGED <<cfg, i, retries, scale, nspikes, evaluated, image, disk, runs>>

\* for i in range(n_examples): ... ; i += 1
LoopTest ==
    /\ pc = "loop"
    /\ IF i < NExamples(cfg)
       THEN /\ pc' = IF EvalDue(i, cfg.update_interval) THEN "eval" ELSE "fetch"
            /\ error' = error
       ELSE IF NExamples(cfg) = 0
            THEN Fail("NameError")
            ELSE pc' = "flush" /\ error' = error
    /\ UNCHANGED <<cfg, memory, disk, runs>>


\* The run leaves its identity on the two files of a checkpoint.
Checkpointed(log, c) ==
    Save(Save(log, c.script, NetPath(c), ModelName(c)), c.script, AuxPath(c), ModelName(c))

\* The record of one evaluation: where it happened and what it compared.
EvalEntry(final, labels, record) ==
    [at |-> i, final |-> final, labels |-> labels, record |-> record]

\* In-loop evaluation of diehl_and_cook_2015.py.
EvaluateDc(latest) ==
    /\ curves' = Appended(curves, latest)
    /\ evaluated' = Append(evaluated,
           EvalEntry(FALSE, PySlice(Labels(cfg), i - cfg.update_interval, i), spike_record))
    /\ IF CheckpointDue(cfg, latest, best_accuracy)
       THEN /\ net_file' = Save(net_file, cfg.script, NetPath(cfg), network)
            /\ aux_file' = Save(aux_file, cfg.script, AuxPath(cfg), classifier)
            /\ written_by' = Checkpointed(written_by, cfg)
            /\ best_accuracy' = NewBest(latest)
       ELSE UNCHANGED <<net_file, aux_file, written_by, best_accuracy>>
    /\ classifier' = IF cfg.train THEN i ELSE classifier
    /\ pc' = "fetch"
    /\ UNCHANGED <<error, curve_file>>

\* In-loop evaluation of logreg_locally_connected.py.
EvaluateLr(latest) ==
    /\ curves' = UpdateCurves(curves, latest)
    /\ evaluated' = Append(evaluated,
           EvalEntry(FALSE,
                     IntervalSlice(Labels(cfg), i, cfg.nlabels, cfg.update_interval),
                     IntervalSlice(full_spike_record, i, cfg.nlabels, cfg.update_interval)))
    /\ curve_file' = Save(curve_file, cfg.script, CurvePath(cfg), curves')
    /\ IF CheckpointDue(cfg, latest, best_accuracy)
       THEN /\ net_file' = Save(net_file, cfg.script, NetPath(cfg), network)
            /\ aux_file' = Save(aux_file, cfg.script, AuxPath(cfg), classifier)
            /\ written_by' = Checkpointed(written_by, cfg)
            /\ best_accuracy' = NewBest(latest)
       ELSE UNCHANGED <<net_file, aux_file, written_by, best_accuracy>>
    /\ IF ~cfg.train
       THEN /\ classifier' = classifier
            /\ pc' = "fetch" /\ error' = error
       ELSE IF Len(PySlice(full_spike_record, 0, i)) = Len(PySlice(Labels(cfg), 0, i))
            THEN /\ classifier' = i
                 /\ pc' = "fetch" /\ error' = error
            ELSE /\ classifier' = classifier
                 /\ Fail("ValueError")

Evaluate ==
    /\ pc = "eval"
    /\ \E latest \in [Schemes(cfg) -> AccValues(cfg)] :
           IF cfg.script = "dc" THEN EvaluateDc(latest) ELSE EvaluateLr(latest)
    /\ UNCHANGED <<cfg, i, retries, scale, nspikes, spike_record, full_spike_record,
                   network, image, confusion_file, csv_file, runs>>

SpikeSums == {0, MinSpikes - 1, MinSpikes}

\* network.run: the weights learn from the example unless learning is disabled.
Ran(net) == IF net.learning THEN [net EXCEPT !.weights = i + 1] ELSE net

\* What the encoder or the network raises on an image that is not of the
\* network's input size, according to the library's version.
ShapeErrors == {"RuntimeError", "ValueError"}

\* Get the next input sample and run the network on it.
Fetch ==
    /\ pc = "fetch"
    /\ IF cfg.script = "dc" /\ i >= cfg.nlabels
       THEN /\ Fail("StopIteration")
            /\ UNCHANGED <<retries, scale, nspikes, network, image>>
       ELSE /\ image' = ImagePixels(cfg)
            /\ IF ImagePixels(cfg) = NInpt(cfg)
               THEN /\ pc' = "ran" /\ error' = error
                    /\ retries' = 0
                    /\ scale' = 1
                    /\ \E s \in SpikeSums : nspikes' = s
                    /\ network' = Ran(network)
               ELSE /\ \E e \in ShapeErrors : Fail(e)
                    /\ UNCHANGED <<retries, scale, nspikes, network>>
    /\ UNCHANGED <<cfg, i, spike_record, full_spike_record, curves, best_accuracy,
                   classifier, evaluated, disk, runs>>

\* One pass of the retry loop of logreg_locally_connected.py.
Retry ==
    /\ pc = "ran"
    /\ cfg.script = "lr"
    /\ RetryDue(nspikes, retries)
    /\ retries' = retries + 1
    /\ scale' = scale * 2
    /\ \E s \in SpikeSums : nspikes' = s
    /\ network' = Ran(network)
    /\ UNCHANGED <<cfg, pc, error, i, spike_record, full_spike_record, curves,
                   best_accuracy, classifier, evaluated, image, disk, runs>>

\* Add to the spike records, reset the network, next example.
Record ==
    /\ pc = "ran"
    /\ cfg.script = "lr" => ~RetryDue(nspikes, retries)
    /\ spike_record' = [spike_record EXCEPT ![Slot(i, cfg.update_interval) + 1] = i]
    /\ full_spike_record' =
           IF cfg.script = "lr" THEN [full_spike_record EXCEPT ![i + 1] = i]
           ELSE full_spike_record
    /\ nspikes' = 0
    /\ i' = i + 1
    /\ pc' = "loop"
    /\ UNCHANGED <<cfg, error, retries, scale, curves, best_accuracy, network,
                   classifier, evaluated, image, disk, runs>>

\* The evaluation after the loop.
FinalFlush ==
    /\ pc = "flush"
    /\ \E latest \in [Schemes(cfg) -> AccValues(cfg)] :
        /\ curves' = IF cfg.script = "dc" THEN Appended(curves, latest)
                      ELSE UpdateCurves(curves, latest)
        /\ IF cfg.script = "dc"
           THEN /\ evaluated' = Append(evaluated,
                       EvalEntry(TRUE, PySlice(Labels(cfg), i - cfg.update_interval, i),
                                 spike_record))
                /\ UNCHANGED <<net_file, aux_file, written_by>>
           ELSE /\ evaluated' = Append(evaluated,
                       EvalEntry(TRUE,
                           IntervalSlice(Labels(cfg), i, cfg.nlabels, cfg.update_interval),
                           IntervalSlice(full_spike_record, i, cfg.nlabels,
                                         cfg.update_interval)))
                /\ IF CheckpointDue(cfg, latest, best_accuracy)
                   THEN /\ net_file' = Save(net_file, cfg.script, NetPath(cfg), network)
                        /\ aux_file' = Save(aux_file, cfg.script, AuxPath(cfg), classifier)
                        /\ written_by' = Checkpointed(written_by, cfg)
                   ELSE UNCHANGED <<net_file, aux_file, written_by>>
    /\ pc' = "report"
    /\ UNCHANGED <<cfg, error, i, retries, scale, nspikes, spike_record,
                   full_spike_record, best_accuracy, network, classifier, image,
                   curve_file, confusion_file, csv_file, runs>>

\* Save the results: curves (lr, training), the CSV row, confusion matrices (lr).
Report ==
    /\ pc = "report"
    /\ curve_file' = IF cfg.script = "lr" /\ cfg.train
                     THEN Save(curve_file, cfg.script, CurvePath(cfg), curves)
                     ELSE curve_file
    /\ csv_file' = CsvAppended(csv_file, cfg)
    /\ confusion_file' = IF cfg.script = "lr"
                         THEN Save(confusion_file, cfg.script, ConfusionPath(cfg), "confusions")
                         ELSE confusion_file
    /\ pc' = "done"
    /\ UNCHANGED <<cfg, error, memory, net_file, aux_file, written_by, runs>>

\* The process ends: its memory is gone, the files stay.
Exit ==
    /\ pc \in {"done", "failed"}
    /\ pc' = "idle"
    /\ error' = "none"
    /\ cfg' = NoConfig
    /\ i' = 0
    /\ retries' = 0
    /\ scale' = 1
    /\ nspikes' = 0
    /\ spike_record' = <<>>
    /\ full_spike_record' = <<>>
    /\ curves' = <<>>
    /\ best_accuracy' = 0
    /\ network' = [weights |-> 0, learning |-> FALSE]
    /\ classifier' = 0
    /\ evaluated' = <<>>
    /\ image' = NoImage
    /\ runs' = runs + 1
    /\ UNCHANGED disk

Step ==
    \/ Validate
    \/ Setup
    \/ LoopTest
    \/ Evaluate
    \/ Fetch
    \/ Retry
    \/ Record
    \/ FinalFlush
    \/ Report

\* One run, of any configuration, on a fresh or a trained disk.
Next ==
    \/ \E c \in RunConfigs : Launch(c)
    \/ Step

Spec == Init /\ [][Next]_vars

\* Successive runs on a disk that starts empty.
NextRuns ==
    \/ \E c \in SmallConfigs : Launch(c)
    \/ Step
    \/ Exit

SpecRuns == InitRuns /\ [][NextRuns]_vars

\* One training run of logreg_locally_connected.py at any crop.
NextCrop ==
    \/ \E c \in CropConfigs : Launch(c)
    \/ Step

SpecCrop == InitRuns /\ [][NextCrop]_vars


-----------------------------------------------------------------------------
\* Vocabulary of the properties.

Launched == pc # "idle"
N == NExamples(cfg)
U == cfg.update_interval
Last(q) == q[Len(q)]
AllAccuracies(cv) == UNION { { cv[s][k] : k \in 1..Len(cv[s]) } : s \in DOMAIN cv }
InLoop == pc \in {"loop", "eval", "fetch", "ran"}
EvaluationHappens == Len(evaluated') = Len(evaluated) + 1

-----------------------------------------------------------------------------
\* C1: a run whose n_train or n_test is not a multiple of update_interval,
\* in either mode, ends with an assertion error with no example simulated,
\* no evaluation made and no file written; when both are multiples the
\* assertion passes and the run goes on to its setup.
C1_NotDivisible ==
    \/ cfg.n_train % cfg.update_interval # 0
    \/ cfg.n_test % cfg.update_interval # 0

C1_FailFast ==
    /\ [](Launched /\ C1_NotDivisible =>
            /\ pc \in {"assert", "failed"}
            /\ pc = "failed" => error = "AssertionError"
            /\ i = 0 /\ evaluated = <<>> /\ curves = <<>>
            /\ network.weights = 0 /\ spike_record = <<>>)
    /\ [][Launched /\ C1_NotDivisible => UNCHANGED disk]_vars
    /\ [][pc = "assert" /\ C1_NotDivisible => pc' = "failed"]_vars
    /\ [][pc = "assert" /\ ~C1_NotDivisible => pc' = "setup"]_vars
    /\ [](Launched /\ ~C1_NotDivisible => error # "AssertionError")

\* A training run stopped by the assertion because of n_test alone.
C1_Witness ==
    /\ pc = "failed" /\ error = "AssertionError"
    /\ cfg.train
    /\ cfg.n_train > 0 /\ cfg.n_train % cfg.update_interval = 0
    /\ cfg.n_test % cfg.update_interval # 0

-----------------------------------------------------------------------------
\* C2: the in-loop evaluations of a run are, in order, those at the indices
\* update_interval, 2 * update_interval, ... below n_examples (never index 0,
\* never another index); a run that reaches its end makes exactly one more,
\* at n_examples; so a run with n_examples = update_interval makes one
\* evaluation in all.
C2_InLoopDone ==
    CASE pc \in {"loop", "eval"}             -> (IF i = 0 THEN 0 ELSE (i - 1) \div U)
      [] pc \in {"fetch", "ran"}             -> i \div U
      [] pc \in {"flush", "report", "done"}  -> (N - 1) \div U
      [] OTHER                               -> 0

C2_EvaluationPoints ==
    /\ \A k \in 1..Len(evaluated) :
          IF evaluated[k].final
          THEN /\ k = Len(evaluated)
               /\ evaluated[k].at = N
               /\ pc \in {"report", "done"}
          ELSE /\ evaluated[k].at = k * U
               /\ evaluated[k].at > 0
               /\ evaluated[k].at < N
    /\ (InLoop \/ pc = "flush") => Len(evaluated) = C2_InLoopDone
    /\ pc \in {"report", "done"} =>
          /\ Len(evaluated) = C2_InLoopDone + 1
          /\ Last(evaluated).final
    /\ (pc = "done" /\ N = U) => Len(evaluated) = 1

\* A finished run of two intervals: one in-loop evaluation and the flush.
C2_Witness ==
    /\ pc = "done"
    /\ U = 2 /\ N = 4
    /\ Len(evaluated) = 2
    /\ evaluated[1].at = 2 /\ ~evaluated[1].final
    /\ evaluated[2].at = 4 /\ evaluated[2].final

-----------------------------------------------------------------------------
\* C3: every scheme's curve has one value per evaluation made, at every
\* point of a run, and ceil(n_examples / update_interval) values once the
\* run has made its last evaluation.
C3_CurveLength ==
    /\ \A s \in DOMAIN curves : Len(curves[s]) = Len(evaluated)
    /\ pc \in {"report", "done"} =>
          /\ DOMAIN curves = Schemes(cfg)
          /\ \A s \in DOMAIN curves : Len(curves[s]) = (N + U - 1) \div U

\* A finished run of the two-scheme script with three evaluations.
C3_Witness ==
    /\ pc = "done"
    /\ cfg.script = "dc"
    /\ N = 3 /\ U = 1
    /\ Len(curves["all"]) = 3 /\ Len(curves["proportion"]) = 3

-----------------------------------------------------------------------------
\* C4: in training, every evaluation (in-loop or final flush), in both
\* scripts: if a newly appended accuracy exceeds the watermark, the network
\* and the classifier state are persisted and the watermark becomes the
\* maximum of the newly appended accuracies; otherwise checkpoint and
\* watermark stay as they are.
C4_CheckpointAtEveryEvaluation ==
    [][(cfg.train /\ EvaluationHappens) =>
          IF \E s \in DOMAIN curves' : Last(curves'[s]) > best_accuracy
          THEN /\ Exists(net_file', cfg.script, NetPath(cfg))
               /\ Content(net_file', cfg.script, NetPath(cfg)) = network
               /\ Exists(aux_file', cfg.script, AuxPath(cfg))
               /\ Content(aux_file', cfg.script, AuxPath(cfg)) = classifier
               /\ best_accuracy' = MaxOf({ Last(curves'[s]) : s \in DOMAIN curves' })
          ELSE UNCHANGED <<net_file, aux_file, best_accuracy>>]_vars

-----------------------------------------------------------------------------
\* C5: within a training run the watermark never decreases, changes only
\* when a newly appended accuracy is strictly greater than it, and through
\* the loop equals the maximum of 0 and every accuracy appended so far.
C5_WatermarkMonotone ==
    /\ [](cfg.train /\ (InLoop \/ pc = "flush") =>
            best_accuracy = MaxOf({0} \cup AllAccuracies(curves)))
    /\ [](pc \in {"assert", "setup"} => best_accuracy = 0)
    /\ [][Launched /\ pc' # "idle" => best_accuracy' >= best_accuracy]_vars
    /\ [][Launched /\ pc' # "idle" /\ best_accuracy' # best_accuracy =>
            /\ cfg.train
            /\ EvaluationHappens
            /\ \E s \in DOMAIN curves' : Last(curves'[s]) > best_accuracy]_vars

\* The watermark raised twice, and set from two schemes that disagree.
C5_Witness ==
    /\ cfg.train /\ cfg.script = "dc"
    /\ pc = "flush"
    /\ curves["all"] = <<50>> /\ curves["proportion"] = <<0>>
    /\ best_accuracy = 50


-----------------------------------------------------------------------------
\* C6: in the logistic-regression script, an evaluation (in-loop or final)
\* at an index that is a multiple of len(labels), the label array being at
\* least update_interval and at most n_examples long, compares the final
\* update_interval labels of the array.
C6_TailLabels ==
    \A k \in 1..Len(evaluated) :
        ( /\ cfg.script = "lr"
          /\ evaluated[k].at % cfg.nlabels = 0
          /\ cfg.nlabels <= N
          /\ cfg.nlabels >= U )
        => evaluated[k].labels = [j \in 1..U |-> cfg.nlabels - U + j - 1]

\* Two labels, intervals of two, four examples: the in-loop evaluation at 2
\* and the flush at 4 both fall on a multiple of the label count.
C6_Witness ==
    /\ cfg.script = "lr"
    /\ cfg.nlabels = 2 /\ U = 2 /\ N = 4
    /\ Len(evaluated) = 2
    /\ evaluated[1].at = 2 /\ evaluated[1].labels = <<0, 1>>
    /\ evaluated[2].at = 4 /\ evaluated[2].labels = <<0, 1>>

-----------------------------------------------------------------------------
\* C7: in the logistic-regression script each example is simulated once at
\* its own intensity, and simulated again, the intensity doubled, exactly
\* while the latest output spike sum is below 5 and fewer than 3 retries
\* were made; the loop goes on to record the example, without error, once
\* the sum reaches 5 or 3 retries were made.
C7_BoundedRetry ==
    /\ [](retries \in 0..3 /\ scale = 2 ^ retries)
    /\ [][(pc = "fetch" /\ pc' = "ran") => (retries' = 0 /\ scale' = 1)]_vars
    /\ [][retries' = retries + 1 =>
            /\ cfg.script = "lr" /\ pc = "ran" /\ pc' = "ran"
            /\ nspikes < 5 /\ retries < 3
            /\ scale' = 2 * scale
            /\ i' = i]_vars
    /\ [][(cfg.script = "lr" /\ pc = "ran" /\ pc' # "ran") =>
            /\ nspikes >= 5 \/ retries = 3
            /\ pc' = "loop" /\ error' = "none"
            /\ i' = i + 1
            /\ full_spike_record'[i + 1] = i]_vars
    /\ [][(cfg.script = "lr" /\ pc = "ran" /\ retries = 0 /\ nspikes >= 5) =>
            retries' = 0]_vars

\* The first example recorded after three retries, the image at 8 times its
\* intensity.
C7_Witness ==
    /\ cfg.script = "lr"
    /\ pc = "loop" /\ i = 1 /\ error = "none"
    /\ retries = 3 /\ scale = 8
    /\ full_spike_record[1] = 0

-----------------------------------------------------------------------------
\* C8: the rolling spike buffer has update_interval slots; recording example
\* i writes slot i mod update_interval alone; slot k holds the latest
\* recorded example congruent to k; so at an evaluation at index i slot k
\* holds example i - update_interval + k.
C8_LatestCongruent(k) ==
    LET c == { j \in 0..(i - 1) : j % U = k }
    IN  IF c = {} THEN NoExample ELSE MaxOf(c)

C8_RollingBuffer ==
    /\ []((InLoop \/ pc \in {"flush", "report", "done"}) =>
            /\ Len(spike_record) = U
            /\ \A k \in 0..(U - 1) : spike_record[k + 1] = C8_LatestCongruent(k))
    /\ [](pc \in {"eval", "flush"} =>
            \A k \in 0..(U - 1) : spike_record[k + 1] = i - U + k)
    /\ [][(pc = "ran" /\ pc' = "loop") =>
            /\ spike_record'[(i % U) + 1] = i
            /\ \A k \in 0..(U - 1) : k # i % U => spike_record'[k + 1] = spike_record[k + 1]]_vars
    /\ [][(InLoop /\ ~(pc = "ran" /\ pc' = "loop") /\ pc' # "idle") =>
            spike_record' = spike_record]_vars

\* The flush of a four-example run with two slots: the slots were overwritten
\* by examples 2 and 3.
C8_Witness ==
    /\ pc = "flush"
    /\ U = 2 /\ i = 4
    /\ spike_record = <<2, 3>>

-----------------------------------------------------------------------------
\* C9: a run that completes appends one data row to the results file of its
\* mode, after writing the header if the file was absent, and touches no
\* other results file; no other step changes a results file; every data row
\* has as many fields as the header has columns.
C9_OneRowPerRun ==
    [][ /\ (pc = "report" /\ pc' = "done") =>
            /\ Exists(csv_file', cfg.script, CsvName(cfg))
            /\ LET new == Content(csv_file', cfg.script, CsvName(cfg))
               IN  /\ IF Exists(csv_file, cfg.script, CsvName(cfg))
                      THEN /\ Len(new) = Len(Content(csv_file, cfg.script, CsvName(cfg))) + 1
                           /\ SubSeq(new, 1, Len(new) - 1) =
                                  Content(csv_file, cfg.script, CsvName(cfg))
                      ELSE /\ Len(new) = 2
                           /\ new[1] = CsvHeader(cfg)
                   /\ Len(new[Len(new)]) = Len(new[1])
            /\ \A f \in csv_file \cup csv_file' :
                  (f[1] # cfg.script \/ f[2] # CsvName(cfg)) => f \in csv_file \cap csv_file'
        /\ ~(pc = "report" /\ pc' = "done") => csv_file' = csv_file ]_vars

-----------------------------------------------------------------------------
\* C10: in test mode no step changes the persisted network checkpoint or
\* classifier state, the classifier and the weights loaded at the start stay
\* as loaded, and learning is disabled from before the first example.
C10_TestModeFrame ==
    /\ [][(Launched /\ ~cfg.train) => (net_file' = net_file /\ aux_file' = aux_file)]_vars
    /\ []((~cfg.train /\ (InLoop \/ pc \in {"flush", "report", "done"})) =>
            /\ ~network.learning
            /\ network.weights = Content(net_file, cfg.script, NetPath(cfg)).weights
            /\ classifier = Content(aux_file, cfg.script, AuxPath(cfg)))
    /\ [][(~cfg.train /\ (InLoop \/ pc \in {"flush", "report"}) /\ pc' # "idle") =>
            (classifier' = classifier /\ network' = network)]_vars

\* A finished test run of two intervals: an in-loop evaluation and the flush
\* have happened.
C10_Witness ==
    /\ ~cfg.train
    /\ pc = "done"
    /\ Len(evaluated) = 2
    /\ i = 2 * U

-----------------------------------------------------------------------------
\* C11: when a run of the logistic-regression script completes, in training
\* mode and in test mode alike, the accuracy-curve file of its identity
\* string and mode exists and holds the in-memory curves, the value appended
\* by the final flush included, ceil(n_examples / update_interval) values
\* per scheme; so also when n_examples = update_interval.
C11_CurveFileComplete ==
    (cfg.script = "lr" /\ pc = "done") =>
        /\ Exists(curve_file, cfg.script, CurvePath(cfg))
        /\ Content(curve_file, cfg.script, CurvePath(cfg)) = curves
        /\ \A s \in Schemes(cfg) :
              Len(Content(curve_file, cfg.script, CurvePath(cfg))[s]) = (N + U - 1) \div U

\* The same restricted to training runs.
C11_TrainCurveFileComplete == cfg.train => C11_CurveFileComplete

-----------------------------------------------------------------------------
\* C12: in both scripts the classifier state is persisted under a file name
\* derived from the identity string, beside the network checkpoint: after
\* any sequence of training runs, the network and the classifier state that
\* a test run of configuration C has loaded are the ones last persisted, and
\* both by a training run whose identity string is C's, never by a run of
\* another configuration.
C12_Loaded == ~cfg.train /\ (InLoop \/ pc \in {"flush", "report", "done"})

C12_LoadedFromOwnIdentity ==
    C12_Loaded =>
        /\ network.weights = Content(net_file, cfg.script, NetPath(cfg)).weights
        /\ classifier = Content(aux_file, cfg.script, AuxPath(cfg))
        /\ Content(written_by, cfg.script, NetPath(cfg)) = ModelName(cfg)
        /\ Content(written_by, cfg.script, AuxPath(cfg)) = ModelName(cfg)

\* The same for logreg_locally_connected.py alone.
C12_LrLoadedFromOwnIdentity == cfg.script = "lr" => C12_LoadedFromOwnIdentity

\* The same for the network checkpoint alone.
C12_NetworkFromOwnIdentity ==
    C12_Loaded => Content(written_by, cfg.script, NetPath(cfg)) = ModelName(cfg)

-----------------------------------------------------------------------------
\* C13: in the logistic-regression script every evaluation, in-loop at index
\* i or the final flush at i = n_examples, compares update_interval labels
\* with update_interval records, the k-th of each belonging to example
\* i - update_interval + k, whose label is labels[(i - update_interval + k)
\* mod len(labels)] and whose record is already written; also when
\* n_examples exceeds len(labels), whatever len(labels) is; and the refit of
\* a training run at index i gets the records and the labels of the examples
\* 0 .. i - 1, as many of the one as of the other.
C13_IntervalCompared ==
    \A k \in 1..Len(evaluated) :
        cfg.script = "lr" =>
            LET e == evaluated[k]
            IN  /\ Len(e.labels) = U
                /\ Len(e.record) = U
                /\ \A j \in 1..U :
                      /\ e.record[j] = e.at - U + j - 1
                      /\ e.labels[j] = Labels(cfg)[((e.at - U + j - 1) % cfg.nlabels) + 1]

C13_RefitWholeHistory ==
    (cfg.script = "lr" /\ cfg.train /\ pc = "eval") =>
        /\ PySlice(full_spike_record, 0, i) = [j \in 1..i |-> j - 1]
        /\ Len(PySlice(Labels(cfg), 0, i)) = i
        /\ pc' = "fetch" /\ classifier' = i

C13_JustCompletedInterval ==
    /\ [](C13_IntervalCompared)
    /\ [][C13_RefitWholeHistory]_vars

\* The same for runs that do not go round the label array.
C13_WithinLabels == N <= cfg.nlabels => C13_IntervalCompared

C13_RefitWithinLabels == [][N <= cfg.nlabels => C13_RefitWholeHistory]_vars

-----------------------------------------------------------------------------
\* C14: in the logistic-regression script, for every crop c with
\* 0 <= c < 14, c = 0 included, the image handed to the encoder has
\* (28 - 2c) * (28 - 2c) pixels, the input size n_inpt the network is built
\* with; c = 0 leaves the 28 x 28 image whole.
C14_CroppedImageFits ==
    (cfg.script = "lr" /\ image # NoImage) =>
        /\ image = (28 - 2 * cfg.crop) * (28 - 2 * cfg.crop)
        /\ image = NInpt(cfg)
        /\ cfg.crop = 0 => image = 28 * 28

\* The same for the crops of 1 and more.
C14_PositiveCropFits == cfg.crop >= 1 => C14_CroppedImageFits

====
